---- MODULE Spec2Model ----
(***************************************************************************)
(* Model of the quantlo ledger: LedgerRepo (Spend / Recharge / GetBalance  *)
(* / CreateAccount / DeleteAccount / SyncTransactionWithBalance), the      *)
(* atomic spend script spend.lua, the event bus and the sync worker.       *)
(*                                                                         *)
(* Every HTTP/gRPC request is served by its own goroutine; a request is a  *)
(* "slot" here.  Each network round trip of a handler (one Redis command   *)
(* or script, one SQL statement or transaction, one bus publish) is one    *)
(* atomic step, and other handlers interleave between the steps.           *)
(***************************************************************************)
EXTENDS Integers, Sequences, FiniteSets, TLC

\* ------------------------------------------------------------------ bounds
\* request slots of the general specification
MaxCalls == 3
\* concurrent Spend calls of the spend-only specification
NSpend == 3
\* calls of the cold-start specification
NCold == 3
\* calls of the recharge specification
NRecharge == 4
\* deliveries (and DeleteAccount calls) of the sync worker specification
NSync == 4
\* Spend calls of the delivery-failure specification
NDeliver == 3
\* calls of the script specification
NLua == 2
\* calls of the account life-cycle specification
NAccount == 3
NInput == 3
NRpc == 3
NGlobal == 3
NCredit == 3
NApp == 2

\* The capacity of GrpcBus.events (QANTLO_BUS_BUFFER_SIZE, 1024 by default).
BufferSize == 2
\* Mantissa width of the script's numbers.  Lua 5.1 numbers are IEEE-754
\* doubles (53 bits); the model checker's integers are 32 bits wide, so the
\* model keeps the format and its rounding rule at this width.
DoubleBits == 20

Slots == 1..(MaxCalls + NRecharge)
Accounts == {"u1"}
Keys == {"k1", "k2", "k3", "k4"}
Amounts == {7, 10}
InitBalances == {0, 10, 30}
\* the values of the recharge specification (the spec's seed scenario 2)
SeedBalances == {10}
SeedAmounts == {7}
SeedDeltas == {10}

\* An absent Redis key / absent SQL row is the empty sequence, a present one
\* is a one-element sequence.
None == <<>>
Some(v) == <<v>>
Val(o) == o[1]

VARIABLES
    fsBalance,      \* Redis "balance:{account}:{resource}"  : None or Some(int)
    fsIdem,         \* Redis "idem:{key}" markers            : set of keys
    fsDeleted,      \* Redis "deleted:{account}:{resource}"  : set of accounts
    dsBalances,     \* table balances: None or Some([amount, deleted])
    dsTransactions, \* table transactions: rows, unique by idempotency key
    bus,            \* events published on transactions.created, not yet handled
    pc,             \* position of each request handler
    req,            \* the request a slot serves
    res,            \* what the handler returned (status, value)
    tmp,            \* warmUpCache's local currentBalance
    ghost,          \* history: what each call saw when it started
    initBal,        \* history: the balance the account was created with
    events,         \* GrpcBus.events, the producer's buffered channel
    server,         \* history: the Publish RPCs the receiver has served
    app             \* App.Run: the group's context, the servers, the result

vars == <<fsBalance, fsIdem, fsDeleted, dsBalances, dsTransactions, bus,
          pc, req, res, tmp, ghost, initBal, events, server, app>>

NoReq == [op |-> "none", account |-> "u1", amount |-> 0, key |-> "k1"]
NoRes == [status |-> "none", val |-> 0, published |-> FALSE]
NoGhost == [afterDelete |-> FALSE, seq |-> FALSE, pre |-> None]
NoServer == [served |-> 0, syncCalled |-> 0, event |-> None, syncErr |-> FALSE, success |-> FALSE]

\* The servers Bootstrap wires with the NATS bus and the HTTP API enabled.
Servers == {"handler", "worker", "grpc", "http"}

\* App before Run: no goroutine started, the context live.
NoApp ==
    [run |-> "new", signal |-> FALSE, ctx |-> FALSE, failed |-> FALSE, err |-> "nil",
     result |-> "none",
     start |-> [s \in Servers |-> "none"],
     ret |-> [s \in Servers |-> "none"],
     stopped |-> [s \in Servers |-> FALSE]]

\* ------------------------------------------------------------ spend.lua
\* The decision of the script on (balance key, idem key present?, amount):
\* status, the balance key afterwards, whether the idem marker is set, and
\* the returned new balance.
SpendLuaNoIdemCheck(bal, idem, n) ==
    IF bal = None THEN [status |-> -1, bal |-> bal, mark |-> FALSE, val |-> 0]
    ELSE IF Val(bal) < n THEN [status |-> -2, bal |-> bal, mark |-> FALSE, val |-> 0]
    ELSE [status |-> 1, bal |-> Some(Val(bal) - n), mark |-> TRUE, val |-> Val(bal) - n]

SpendLuaNoSufficiency(bal, idem, n) ==
    IF idem THEN [status |-> 0, bal |-> bal, mark |-> FALSE, val |-> 0]
    ELSE IF bal = None THEN [status |-> -1, bal |-> bal, mark |-> FALSE, val |-> 0]
    ELSE [status |-> 1, bal |-> Some(Val(bal) - n), mark |-> TRUE, val |-> Val(bal) - n]

SpendLuaDebitWithoutMark(bal, idem, n) ==
    IF idem THEN [status |-> 0, bal |-> bal, mark |-> FALSE, val |-> 0]
    ELSE IF bal = None THEN [status |-> -1, bal |-> bal, mark |-> FALSE, val |-> 0]
    ELSE IF Val(bal) < n THEN [status |-> -2, bal |-> bal, mark |-> FALSE, val |-> 0]
    ELSE [status |-> 1, bal |-> Some(Val(bal) - n), mark |-> FALSE, val |-> Val(bal) - n]

SpendLuaMarkOnFailure(bal, idem, n) ==
    IF idem THEN [status |-> 0, bal |-> bal, mark |-> FALSE, val |-> 0]
    ELSE IF bal = None THEN [status |-> -1, bal |-> bal, mark |-> TRUE, val |-> 0]
    ELSE IF Val(bal) < n THEN [status |-> -2, bal |-> bal, mark |-> TRUE, val |-> 0]
    ELSE [status |-> 1, bal |-> Some(Val(bal) - n), mark |-> TRUE, val |-> Val(bal) - n]

\* The largest magnitude up to which every integer is a Lua number.
Exact == 2 ^ DoubleBits

Abs(x) == IF x < 0 THEN -x ELSE x

\* tonumber(s) of a decimal integer string, and the conversion of an integer
\* reply to a Lua number: the nearest double, ties to the even mantissa.
\* Between Exact and 2 * Exact the doubles are the even integers.
ToNumber(x) ==
    IF Abs(x) <= Exact THEN x
    ELSE IF x % 2 = 0 THEN x
    ELSE IF (x + 1) % 4 = 0 THEN x + 1
    ELSE x - 1

\* The comparison is made on Lua numbers; DECRBY subtracts the Lua number
\* deduct_amount from the stored integer and its reply comes back as a Lua
\* number.
SpendLua(bal, idem, n) ==
    IF idem THEN [status |-> 0, bal |-> bal, mark |-> FALSE, val |-> 0]
    ELSE IF bal = None THEN [status |-> -1, bal |-> bal, mark |-> FALSE, val |-> 0]
    ELSE LET current_balance == ToNumber(Val(bal))
             deduct_amount == ToNumber(n)
             new_balance == Val(bal) - deduct_amount
         IN IF current_balance < deduct_amount
            THEN [status |-> -2, bal |-> bal, mark |-> FALSE, val |-> 0]
            ELSE [status |-> 1, bal |-> Some(new_balance), mark |-> TRUE,
                  val |-> ToNumber(new_balance)]

LuaOutcomePublishesAlways(status, first) ==
    CASE status = 1 -> [pc |-> "publish", status |-> "SUCCESS"]
      [] status = 0 -> [pc |-> "publish", status |-> "AlreadyProcessed"]
      [] status = -2 -> [pc |-> "publish", status |-> "Insufficient"]
      [] OTHER -> IF first THEN [pc |-> "warm_db", status |-> "none"]
                  ELSE [pc |-> "done", status |-> "CacheMiss"]

\* executeLua's switch on the script status: the handler's next position and
\* the error it returns.  first = TRUE for the call Spend makes before warm-up.
LuaOutcome(status, first) ==
    CASE status = 1 -> [pc |-> "publish", status |-> "SUCCESS"]
      [] status = 0 -> [pc |-> "done", status |-> "AlreadyProcessed"]
      [] status = -2 -> [pc |-> "done", status |-> "Insufficient"]
      [] OTHER -> IF first THEN [pc |-> "warm_db", status |-> "none"]
                  ELSE [pc |-> "done", status |-> "CacheMiss"]

\* ------------------------------------------------------------ history
DeleteReturned ==
    \E d \in Slots : pc[d] = "done" /\ req[d].op = "DeleteAccount" /\ res[d].status = "Ok"

Quiet == \A d \in Slots : pc[d] \in {"idle", "done"}

\* Requests are numbered in the order they arrive.
CanStart(c) == pc[c] = "idle" /\ (IF c = 1 THEN TRUE ELSE pc[c - 1] # "idle")

Started(c, a) ==
    [afterDelete |-> DeleteReturned, seq |-> Quiet, pre |-> fsBalance[a]]

\* ------------------------------------------------------------ Init
InitSlots ==
    /\ pc = [c \in Slots |-> "idle"]
    /\ req = [c \in Slots |-> NoReq]
    /\ res = [c \in Slots |-> NoRes]
    /\ tmp = [c \in Slots |-> 0]
    /\ ghost = [c \in Slots |-> NoGhost]
    /\ fsIdem = {}
    /\ fsDeleted = {}
    /\ dsTransactions = {}
    /\ bus = {}
    /\ events = <<>>
    /\ server = NoServer
    /\ app = NoApp

\* Fresh stores: no account exists.
InitEmpty ==
    /\ InitSlots
    /\ fsBalance = [a \in Accounts |-> None]
    /\ dsBalances = [a \in Accounts |-> None]
    /\ initBal = [a \in Accounts |-> 0]

\* The state CreateAccount(u1, b) leaves behind.
InitWarmFrom(balances) ==
    /\ InitSlots
    /\ \E b \in balances :
        /\ fsBalance = [a \in Accounts |-> Some(b)]
        /\ dsBalances = [a \in Accounts |-> Some([amount |-> b, deleted |-> FALSE])]
        /\ initBal = [a \in Accounts |-> b]

\* As InitWarm with the balance key gone from Redis (evicted, or invalidated).
InitColdFrom(balances) ==
    /\ InitSlots
    /\ \E b \in balances :
        /\ fsBalance = [a \in Accounts |-> None]
        /\ dsBalances = [a \in Accounts |-> Some([amount |-> b, deleted |-> FALSE])]
        /\ initBal = [a \in Accounts |-> b]

InitWarm == InitWarmFrom(InitBalances)

InitCold == InitColdFrom(InitBalances)

\* ------------------------------------------------------------ Spend
SpendScriptKeyPerAccount(c, a, n, k) ==
    /\ CanStart(c)
    /\ LET r == SpendLua(fsBalance[a], <<a, k>> \in fsIdem, n)
           o == LuaOutcome(r.status, TRUE)
       IN /\ fsBalance' = [fsBalance EXCEPT ![a] = r.bal]
          /\ fsIdem' = IF r.mark THEN fsIdem \cup {<<a, k>>} ELSE fsIdem
          /\ pc' = [pc EXCEPT ![c] = o.pc]
          /\ res' = [res EXCEPT ![c] = [status |-> o.status, val |-> r.val, published |-> FALSE]]
    /\ req' = [req EXCEPT ![c] = [op |-> "Spend", account |-> a, amount |-> n, key |-> k]]
    /\ ghost' = [ghost EXCEPT ![c] = Started(c, a)]
    /\ UNCHANGED <<fsDeleted, dsBalances, dsTransactions, bus, tmp, initBal, events, server, app>>

\* Spend: the first executeLua.
SpendScript(c, a, n, k) ==
    /\ CanStart(c)
    /\ LET r == SpendLua(fsBalance[a], k \in fsIdem, n)
           o == LuaOutcome(r.status, TRUE)
       IN /\ fsBalance' = [fsBalance EXCEPT ![a] = r.bal]
          /\ fsIdem' = IF r.mark THEN fsIdem \cup {k} ELSE fsIdem
          /\ pc' = [pc EXCEPT ![c] = o.pc]
          /\ res' = [res EXCEPT ![c] = [status |-> o.status, val |-> r.val, published |-> FALSE]]
    /\ req' = [req EXCEPT ![c] = [op |-> "Spend", account |-> a, amount |-> n, key |-> k]]
    /\ ghost' = [ghost EXCEPT ![c] = Started(c, a)]
    /\ UNCHANGED <<fsDeleted, dsBalances, dsTransactions, bus, tmp, initBal, events, server, app>>

\* Spend: the second executeLua, after warmUpCache returned nil.
SpendRetry(c) ==
    /\ pc[c] = "retry"
    /\ LET a == req[c].account
           k == req[c].key
           r == SpendLua(fsBalance[a], k \in fsIdem, req[c].amount)
           o == LuaOutcome(r.status, FALSE)
       IN /\ fsBalance' = [fsBalance EXCEPT ![a] = r.bal]
          /\ fsIdem' = IF r.mark THEN fsIdem \cup {k} ELSE fsIdem
          /\ pc' = [pc EXCEPT ![c] = o.pc]
          /\ res' = [res EXCEPT ![c] = [status |-> o.status, val |-> r.val, published |-> FALSE]]
    /\ UNCHANGED <<fsDeleted, dsBalances, dsTransactions, bus, req, tmp, ghost, initBal, events, server, app>>

\* The event publishEvent builds from the request.
SpendEvent(c) ==
    [slot |-> c, account |-> req[c].account, amount |-> req[c].amount, key |-> req[c].key]

\* publishEvent, bus.Publish returned nil.
PublishOk(c) ==
    /\ pc[c] = "publish"
    /\ bus' = bus \cup {SpendEvent(c)}
    /\ pc' = [pc EXCEPT ![c] = "done"]
    /\ res' = [res EXCEPT ![c].published = TRUE]
    /\ UNCHANGED <<fsBalance, fsIdem, fsDeleted, dsBalances, dsTransactions, req, tmp, ghost, initBal, events, server, app>>

PublishFailReturnsError(c) ==
    /\ pc[c] = "publish"
    /\ pc' = [pc EXCEPT ![c] = "done"]
    /\ res' = [res EXCEPT ![c] = [status |-> "Transport", val |-> 0, published |-> FALSE]]
    /\ UNCHANGED <<fsBalance, fsIdem, fsDeleted, dsBalances, dsTransactions, bus, req, tmp, ghost, initBal, events, server, app>>

\* publishEvent, bus.Publish returned an error: logged, the event is gone.
PublishFail(c) ==
    /\ pc[c] = "publish"
    /\ pc' = [pc EXCEPT ![c] = "done"]
    /\ UNCHANGED <<fsBalance, fsIdem, fsDeleted, dsBalances, dsTransactions, bus, req, res, tmp, ghost, initBal, events, server, app>>

\* The idem marker's expiry (SET ... EX 86400).  24 hours outlast any request:
\* the marker does not expire while a Spend with this key is being served.
IdemExpire(k) ==
    /\ k \in fsIdem
    /\ \A c \in Slots : (req[c].op = "Spend" /\ req[c].key = k) => pc[c] = "done"
    /\ fsIdem' = fsIdem \ {k}
    /\ UNCHANGED <<fsBalance, fsDeleted, dsBalances, dsTransactions, bus, pc, req, res, tmp, ghost, initBal, events, server, app>>

\* ------------------------------------------------------------ warm-up
WarmUpSelectIgnoresDeleted(row) ==
    IF row = None THEN [pc |-> "done", status |-> "NotFound", amount |-> 0]
    ELSE [pc |-> "warm_set", status |-> "none", amount |-> Val(row).amount]

\* warmUpCache: the SELECT.  kind is the caller's name for a deleted row.
WarmUpSelect(row) ==
    IF row = None THEN [pc |-> "done", status |-> "NotFound", amount |-> 0]
    ELSE IF Val(row).deleted THEN [pc |-> "done", status |-> "Deleted", amount |-> 0]
    ELSE [pc |-> "warm_set", status |-> "none", amount |-> Val(row).amount]

WarmDb(c) ==
    /\ pc[c] = "warm_db"
    /\ LET w == WarmUpSelect(dsBalances[req[c].account])
       IN /\ pc' = [pc EXCEPT ![c] = w.pc]
          /\ res' = [res EXCEPT ![c].status = w.status]
          /\ tmp' = [tmp EXCEPT ![c] = w.amount]
    /\ UNCHANGED <<fsBalance, fsIdem, fsDeleted, dsBalances, dsTransactions, bus, req, ghost, initBal, events, server, app>>

\* warmUpCache: the SET of the balance key, then back in the caller.
WarmSet(c) ==
    /\ pc[c] = "warm_set"
    /\ fsBalance' = [fsBalance EXCEPT ![req[c].account] = Some(tmp[c])]
    /\ pc' = [pc EXCEPT ![c] = IF req[c].op = "Spend" THEN "retry" ELSE "get2"]
    /\ UNCHANGED <<fsIdem, fsDeleted, dsBalances, dsTransactions, bus, req, res, tmp, ghost, initBal, events, server, app>>

\* ------------------------------------------------------------ GetBalance
\* GetBalance: the first GET of the balance key.
GetBalanceRead(c, a) ==
    /\ CanStart(c)
    /\ req' = [req EXCEPT ![c] = [op |-> "GetBalance", account |-> a, amount |-> 0, key |-> "k1"]]
    /\ ghost' = [ghost EXCEPT ![c] = Started(c, a)]
    /\ IF fsBalance[a] # None
       THEN /\ pc' = [pc EXCEPT ![c] = "done"]
            /\ res' = [res EXCEPT ![c] = [status |-> "Ok", val |-> Val(fsBalance[a]), published |-> FALSE]]
       ELSE /\ pc' = [pc EXCEPT ![c] = "warm_db"]
            /\ res' = res
    /\ UNCHANGED <<fsBalance, fsIdem, fsDeleted, dsBalances, dsTransactions, bus, tmp, initBal, events, server, app>>

\* GetBalance: the GET after warmUpCache returned nil; redis.Nil when the key
\* has been removed in between.
GetBalanceReread(c) ==
    /\ pc[c] = "get2"
    /\ pc' = [pc EXCEPT ![c] = "done"]
    /\ res' = [res EXCEPT ![c] =
                 IF fsBalance[req[c].account] # None
                 THEN [status |-> "Ok", val |-> Val(fsBalance[req[c].account]), published |-> FALSE]
                 ELSE [status |-> "RedisNil", val |-> 0, published |-> FALSE]]
    /\ UNCHANGED <<fsBalance, fsIdem, fsDeleted, dsBalances, dsTransactions, bus, req, tmp, ghost, initBal, events, server, app>>

\* ------------------------------------------------------------ Recharge
\* UPDATE balances SET amount = amount + $1 ... AND deleted_at IS NULL
RechargeUpdateAnyRow(row, delta) ==
    IF row = None THEN row ELSE Some([Val(row) EXCEPT !.amount = @ + delta])

RechargeUpdate(row, delta) ==
    IF row = None THEN row
    ELSE IF Val(row).deleted THEN row
    ELSE Some([Val(row) EXCEPT !.amount = @ + delta])

\* RowsAffected() of that UPDATE is not 0.
RechargeAffected(row) == row # None /\ ~Val(row).deleted

\* Recharge: the UPDATE; ErrNotFoundInDB when no row was affected.
RechargeDb(c, a, delta) ==
    /\ CanStart(c)
    /\ req' = [req EXCEPT ![c] = [op |-> "Recharge", account |-> a, amount |-> delta, key |-> "k1"]]
    /\ ghost' = [ghost EXCEPT ![c] = Started(c, a)]
    /\ dsBalances' = [dsBalances EXCEPT ![a] = RechargeUpdate(@, delta)]
    /\ IF RechargeAffected(dsBalances[a])
       THEN /\ pc' = [pc EXCEPT ![c] = "recharge_del"]
            /\ res' = res
       ELSE /\ pc' = [pc EXCEPT ![c] = "done"]
            /\ res' = [res EXCEPT ![c].status = "NotFound"]
    /\ UNCHANGED <<fsBalance, fsIdem, fsDeleted, dsTransactions, bus, tmp, initBal, events, server, app>>

\* Recharge: DEL of the balance key.
RechargeDel(c) ==
    /\ pc[c] = "recharge_del"
    /\ fsBalance' = [fsBalance EXCEPT ![req[c].account] = None]
    /\ pc' = [pc EXCEPT ![c] = "done"]
    /\ res' = [res EXCEPT ![c].status = "Ok"]
    /\ UNCHANGED <<fsIdem, fsDeleted, dsBalances, dsTransactions, bus, req, tmp, ghost, initBal, events, server, app>>

\* Recharge: the UPDATE failed (Postgres unreachable); 'db recharge error' is
\* returned and no row has changed.
RechargeDbFail(c, a, delta) ==
    /\ CanStart(c)
    /\ req' = [req EXCEPT ![c] = [op |-> "Recharge", account |-> a, amount |-> delta, key |-> "k1"]]
    /\ ghost' = [ghost EXCEPT ![c] = Started(c, a)]
    /\ pc' = [pc EXCEPT ![c] = "done"]
    /\ res' = [res EXCEPT ![c].status = "Transport"]
    /\ UNCHANGED <<fsBalance, fsIdem, fsDeleted, dsBalances, dsTransactions, bus, tmp, initBal, events, server, app>>

\* Recharge: the DEL of the balance key failed (Redis unreachable); its error
\* is returned after the UPDATE has been committed.
RechargeDelFail(c) ==
    /\ pc[c] = "recharge_del"
    /\ pc' = [pc EXCEPT ![c] = "done"]
    /\ res' = [res EXCEPT ![c].status = "Transport"]
    /\ UNCHANGED <<fsBalance, fsIdem, fsDeleted, dsBalances, dsTransactions, bus, req, tmp, ghost, initBal, events, server, app>>

\* ------------------------------------------------------------ CreateAccount
CreateDbOverwrites(c, a, b) ==
    /\ CanStart(c)
    /\ req' = [req EXCEPT ![c] = [op |-> "CreateAccount", account |-> a, amount |-> b, key |-> "k1"]]
    /\ ghost' = [ghost EXCEPT ![c] = Started(c, a)]
    /\ dsBalances' = [dsBalances EXCEPT ![a] = Some([amount |-> b, deleted |-> FALSE])]
    /\ initBal' = [initBal EXCEPT ![a] = b]
    /\ pc' = [pc EXCEPT ![c] = "create_set"]
    /\ res' = res
    /\ UNCHANGED <<fsBalance, fsIdem, fsDeleted, dsTransactions, bus, tmp, events, server, app>>

\* CreateAccount: INSERT ... ON CONFLICT (account_id, resource_type) DO NOTHING
CreateDb(c, a, b) ==
    /\ CanStart(c)
    /\ req' = [req EXCEPT ![c] = [op |-> "CreateAccount", account |-> a, amount |-> b, key |-> "k1"]]
    /\ ghost' = [ghost EXCEPT ![c] = Started(c, a)]
    /\ IF dsBalances[a] = None
       THEN /\ dsBalances' = [dsBalances EXCEPT ![a] = Some([amount |-> b, deleted |-> FALSE])]
            /\ initBal' = [initBal EXCEPT ![a] = b]
            /\ pc' = [pc EXCEPT ![c] = "create_set"]
            /\ res' = res
       ELSE /\ dsBalances' = dsBalances
            /\ initBal' = initBal
            /\ pc' = [pc EXCEPT ![c] = "done"]
            /\ res' = [res EXCEPT ![c].status = "AlreadyExists"]
    /\ UNCHANGED <<fsBalance, fsIdem, fsDeleted, dsTransactions, bus, tmp, events, server, app>>

\* CreateAccount: SET of the balance key to the initial amount.
CreateSet(c) ==
    /\ pc[c] = "create_set"
    /\ fsBalance' = [fsBalance EXCEPT ![req[c].account] = Some(req[c].amount)]
    /\ pc' = [pc EXCEPT ![c] = "done"]
    /\ res' = [res EXCEPT ![c].status = "Ok"]
    /\ UNCHANGED <<fsIdem, fsDeleted, dsBalances, dsTransactions, bus, req, tmp, ghost, initBal, events, server, app>>

\* ------------------------------------------------------------ DeleteAccount
DeleteDbAnyRow(c, a) ==
    /\ CanStart(c)
    /\ req' = [req EXCEPT ![c] = [op |-> "DeleteAccount", account |-> a, amount |-> 0, key |-> "k1"]]
    /\ ghost' = [ghost EXCEPT ![c] = Started(c, a)]
    /\ IF dsBalances[a] # None
       THEN /\ dsBalances' = [dsBalances EXCEPT ![a] = Some([Val(@) EXCEPT !.deleted = TRUE])]
            /\ pc' = [pc EXCEPT ![c] = "delete_pipe"]
            /\ res' = res
       ELSE /\ dsBalances' = dsBalances
            /\ pc' = [pc EXCEPT ![c] = "done"]
            /\ res' = [res EXCEPT ![c].status = "NotFound"]
    /\ UNCHANGED <<fsBalance, fsIdem, fsDeleted, dsTransactions, bus, tmp, initBal, events, server, app>>

\* DeleteAccount: UPDATE balances SET deleted_at = NOW() ... AND deleted_at IS NULL
DeleteDb(c, a) ==
    /\ CanStart(c)
    /\ req' = [req EXCEPT ![c] = [op |-> "DeleteAccount", account |-> a, amount |-> 0, key |-> "k1"]]
    /\ ghost' = [ghost EXCEPT ![c] = Started(c, a)]
    /\ IF dsBalances[a] # None /\ ~Val(dsBalances[a]).deleted
       THEN /\ dsBalances' = [dsBalances EXCEPT ![a] = Some([Val(@) EXCEPT !.deleted = TRUE])]
            /\ pc' = [pc EXCEPT ![c] = "delete_pipe"]
            /\ res' = res
       ELSE /\ dsBalances' = dsBalances
            /\ pc' = [pc EXCEPT ![c] = "done"]
            /\ res' = [res EXCEPT ![c].status = "NotFound"]
    /\ UNCHANGED <<fsBalance, fsIdem, fsDeleted, dsTransactions, bus, tmp, initBal, events, server, app>>

\* DeleteAccount: the pipeline DEL balance key + SET deleted key (30 s).
DeletePipe(c) ==
    /\ pc[c] = "delete_pipe"
    /\ fsBalance' = [fsBalance EXCEPT ![req[c].account] = None]
    /\ fsDeleted' = fsDeleted \cup {req[c].account}
    /\ pc' = [pc EXCEPT ![c] = "done"]
    /\ res' = [res EXCEPT ![c].status = "Ok"]
    /\ UNCHANGED <<fsIdem, dsBalances, dsTransactions, bus, req, tmp, ghost, initBal, events, server, app>>

\* The deleted key's 30-second expiry.
DeletedExpire(a) ==
    /\ a \in fsDeleted
    /\ fsDeleted' = fsDeleted \ {a}
    /\ UNCHANGED <<fsBalance, fsIdem, dsBalances, dsTransactions, bus, pc, req, res, tmp, ghost, initBal, events, server, app>>

\* ------------------------------------------------------------ sync worker
\* SyncTransactionWithBalance: one SQL transaction.  INSERT ... ON CONFLICT
\* (idempotency_key) DO NOTHING; when a row was inserted, UPDATE balances
\* SET amount = amount - $1 for the account (deleted rows included).
TxKeys(txs) == {t.key : t \in txs}

\* The row the INSERT writes for event e.
SyncRow(e) == [key |-> e.key, account |-> e.account, amount |-> e.amount]

SyncInsertedAlways(txs, e) == TRUE

\* insertedKey # "": the INSERT ... ON CONFLICT DO NOTHING RETURNING gave a row.
SyncInserted(txs, e) == e.key \notin TxKeys(txs)

\* UPDATE balances SET amount = amount - $1 WHERE account_id = $2 AND
\* resource_type = $3; its error and RowsAffected are not looked at.
SyncUpdate(bals, e) ==
    IF bals[e.account] = None THEN bals
    ELSE [bals EXCEPT ![e.account] = Some([Val(@) EXCEPT !.amount = @ - e.amount])]

SyncNoDecrement(txs, bals, e) ==
    IF e.key \in TxKeys(txs) THEN [txs |-> txs, bals |-> bals]
    ELSE [txs |-> txs \cup {[key |-> e.key, account |-> e.account, amount |-> e.amount]},
          bals |-> bals]

SyncTransactionWithBalance(txs, bals, e) ==
    IF ~SyncInserted(txs, e) THEN [txs |-> txs, bals |-> bals]
    ELSE [txs |-> txs \cup {SyncRow(e)}, bals |-> SyncUpdate(bals, e)]

\* The worker's NATS callback on one message.
WorkerHandle(e) ==
    /\ e \in bus
    /\ bus' = bus \ {e}
    /\ LET s == SyncTransactionWithBalance(dsTransactions, dsBalances, e)
       IN /\ dsTransactions' = s.txs
          /\ dsBalances' = s.bals
    /\ UNCHANGED <<fsBalance, fsIdem, fsDeleted, pc, req, res, tmp, ghost, initBal, events, server, app>>

\* ------------------------------------------------------------ deliveries
\* The worker's callback statement by statement, one slot per delivery of an
\* event.  The bus may deliver an event again: a delivery does not take the
\* event off the bus here.
SyncEvents ==
    {[slot |-> 0, account |-> "u1", amount |-> 7, key |-> "k1"],
     [slot |-> 0, account |-> "u1", amount |-> 10, key |-> "k2"]}

SyncBalances == {30}

\* Deliveries whose transaction has inserted its row and not yet committed.
SyncPending == {c \in Slots : req[c].op = "Sync" /\ pc[c] = "sync_update"}

\* Begin and the INSERT.  While another transaction holds an uncommitted row
\* with the same idempotency key the INSERT waits on the unique index.
SyncInsert(c, e) ==
    /\ CanStart(c)
    /\ e \in bus
    /\ \A d \in SyncPending : req[d].key # e.key
    /\ req' = [req EXCEPT ![c] = [op |-> "Sync", account |-> e.account, amount |-> e.amount, key |-> e.key]]
    /\ ghost' = [ghost EXCEPT ![c] = Started(c, e.account)]
    /\ IF SyncInserted(dsTransactions, e)
       THEN /\ pc' = [pc EXCEPT ![c] = "sync_update"]
            /\ res' = res
       ELSE /\ pc' = [pc EXCEPT ![c] = "done"]
            /\ res' = [res EXCEPT ![c].status = "Ok"]
    /\ UNCHANGED <<fsBalance, fsIdem, fsDeleted, dsBalances, dsTransactions, bus, tmp, initBal, events, server, app>>

\* The UPDATE and the Commit: the row lock keeps the decrement invisible to
\* others until the commit.
SyncCommit(c) ==
    /\ pc[c] = "sync_update"
    /\ dsTransactions' = dsTransactions \cup {SyncRow(req[c])}
    /\ dsBalances' = SyncUpdate(dsBalances, req[c])
    /\ pc' = [pc EXCEPT ![c] = "done"]
    /\ res' = [res EXCEPT ![c].status = "Ok"]
    /\ UNCHANGED <<fsBalance, fsIdem, fsDeleted, bus, req, tmp, ghost, initBal, events, server, app>>

\* The events are on the bus; the account has no row, or the row and the
\* balance key CreateAccount left.
InitSync ==
    /\ pc = [c \in Slots |-> "idle"]
    /\ req = [c \in Slots |-> NoReq]
    /\ res = [c \in Slots |-> NoRes]
    /\ tmp = [c \in Slots |-> 0]
    /\ ghost = [c \in Slots |-> NoGhost]
    /\ fsIdem = {}
    /\ fsDeleted = {}
    /\ dsTransactions = {}
    /\ bus = SyncEvents
    /\ events = <<>>
    /\ server = NoServer
    /\ app = NoApp
    /\ \/ /\ fsBalance = [a \in Accounts |-> None]
          /\ dsBalances = [a \in Accounts |-> None]
          /\ initBal = [a \in Accounts |-> 0]
       \/ \E b \in SyncBalances :
          /\ fsBalance = [a \in Accounts |-> Some(b)]
          /\ dsBalances = [a \in Accounts |-> Some([amount |-> b, deleted |-> FALSE])]
          /\ initBal = [a \in Accounts |-> b]

NextSync ==
    \/ \E c \in 1..NSync, e \in SyncEvents : SyncInsert(c, e)
    \/ \E c \in Slots : SyncCommit(c)
    \/ \E c \in 1..NSync, a \in Accounts : DeleteDb(c, a)
    \/ \E c \in Slots : DeletePipe(c)

SpecSync == InitSync /\ [][NextSync]_vars

\* ------------------------------------------------------------ failures
\* The worker's callback when SyncTransactionWithBalance returns an error
\* (Begin, the INSERT or the Commit failed): the transaction is rolled back,
\* the error is logged and the callback returns.  The subscription is a plain
\* QueueSubscribe: the message is not delivered again.
WorkerFail(e) ==
    /\ e \in bus
    /\ bus' = bus \ {e}
    /\ UNCHANGED <<fsBalance, fsIdem, fsDeleted, dsBalances, dsTransactions, pc, req, res, tmp, ghost, initBal, events, server, app>>

SpendCancelledRollsBack(c, a, n, k) ==
    /\ CanStart(c)
    /\ SpendLua(fsBalance[a], k \in fsIdem, n).status = 1
    /\ pc' = [pc EXCEPT ![c] = "done"]
    /\ res' = [res EXCEPT ![c] = [status |-> "Canceled", val |-> 0, published |-> FALSE]]
    /\ req' = [req EXCEPT ![c] = [op |-> "Spend", account |-> a, amount |-> n, key |-> k]]
    /\ ghost' = [ghost EXCEPT ![c] = Started(c, a)]
    /\ UNCHANGED <<fsBalance, fsIdem, fsDeleted, dsBalances, dsTransactions, bus, tmp, initBal, events, server, app>>

\* Spend whose context is cancelled while Eval waits for the reply of a script
\* run that committed: Eval returns the context's error, executeLua returns it
\* before publishEvent.
SpendCancelled(c, a, n, k) ==
    /\ CanStart(c)
    /\ LET r == SpendLua(fsBalance[a], k \in fsIdem, n)
       IN /\ r.status = 1
          /\ fsBalance' = [fsBalance EXCEPT ![a] = r.bal]
          /\ fsIdem' = IF r.mark THEN fsIdem \cup {k} ELSE fsIdem
    /\ pc' = [pc EXCEPT ![c] = "done"]
    /\ res' = [res EXCEPT ![c] = [status |-> "Canceled", val |-> 0, published |-> FALSE]]
    /\ req' = [req EXCEPT ![c] = [op |-> "Spend", account |-> a, amount |-> n, key |-> k]]
    /\ ghost' = [ghost EXCEPT ![c] = Started(c, a)]
    /\ UNCHANGED <<fsDeleted, dsBalances, dsTransactions, bus, tmp, initBal, events, server, app>>

\* Spend calls against a warm account with publish, cancellation and worker
\* failures.
NextDeliver ==
    \/ \E c \in 1..NDeliver, a \in Accounts, n \in Amounts, k \in {"k1", "k2"} : SpendScript(c, a, n, k)
    \/ \E c \in 1..NDeliver, a \in Accounts, n \in Amounts, k \in {"k1", "k2"} : SpendCancelled(c, a, n, k)
    \/ \E c \in Slots : PublishOk(c)
    \/ \E c \in Slots : PublishFail(c)
    \/ \E e \in bus : WorkerHandle(e)
    \/ \E e \in bus : WorkerFail(e)

SpecDeliver == InitWarm /\ [][NextDeliver]_vars

\* ------------------------------------------------------------ script
\* The script on every kind of input: balance key absent or present, idem
\* marker absent or present, small values and values around Exact.
LuaBalances == {0, 7, Exact - 1, Exact, Exact + 1, Exact + 2, Exact + 3}

LuaAmounts == {1, 7, Exact - 1, Exact, Exact + 1, Exact + 3}

InitLua ==
    /\ pc = [c \in Slots |-> "idle"]
    /\ req = [c \in Slots |-> NoReq]
    /\ res = [c \in Slots |-> NoRes]
    /\ tmp = [c \in Slots |-> 0]
    /\ ghost = [c \in Slots |-> NoGhost]
    /\ fsDeleted = {}
    /\ dsTransactions = {}
    /\ bus = {}
    /\ events = <<>>
    /\ server = NoServer
    /\ app = NoApp
    /\ fsIdem \in SUBSET {"k1"}
    /\ \E b \in LuaBalances :
          /\ fsBalance \in {[a \in Accounts |-> None], [a \in Accounts |-> Some(b)]}
          /\ dsBalances = [a \in Accounts |-> Some([amount |-> b, deleted |-> FALSE])]
          /\ initBal = [a \in Accounts |-> b]

NextLua ==
    \/ \E c \in 1..NLua, a \in Accounts, n \in LuaAmounts, k \in {"k1", "k2"} : SpendScript(c, a, n, k)
    \/ \E c \in Slots : PublishOk(c)

SpecLua == InitLua /\ [][NextLua]_vars

\* ------------------------------------------------------------ HTTP
\* Handler.GetBalance: any error of the service is answered 404.
HttpGetBalance(status) == IF status = "Ok" THEN 200 ELSE 404

\* Handler.Spend on a decoded request: any error of the service is answered
\* 422 with the error's text, a result 200.
HttpSpend(status) == IF status = "SUCCESS" THEN 200 ELSE 422

\* ------------------------------------------------------------ accounts
\* CreateAccount: the SET of the balance key failed; its error is returned.
CreateSetFail(c) ==
    /\ pc[c] = "create_set"
    /\ pc' = [pc EXCEPT ![c] = "done"]
    /\ res' = [res EXCEPT ![c].status = "Transport"]
    /\ UNCHANGED <<fsBalance, fsIdem, fsDeleted, dsBalances, dsTransactions, bus, req, tmp, ghost, initBal, events, server, app>>

\* The life cycle of one account: created, spent from, recharged, read,
\* deleted, created again.
NextAccount ==
    \/ \E c \in 1..NAccount, a \in Accounts, b \in SeedBalances : CreateDb(c, a, b)
    \/ \E c \in 1..NAccount, a \in Accounts : DeleteDb(c, a)
    \/ \E c \in 1..NAccount, a \in Accounts, d \in SeedDeltas : RechargeDb(c, a, d)
    \/ \E c \in 1..NAccount, a \in Accounts, n \in SeedAmounts : SpendScript(c, a, n, "k1")
    \/ \E c \in 1..NAccount, a \in Accounts : GetBalanceRead(c, a)
    \/ \E c \in Slots : CreateSet(c)
    \/ \E c \in Slots : CreateSetFail(c)
    \/ \E c \in Slots : DeletePipe(c)
    \/ \E c \in Slots : RechargeDel(c)
    \/ \E c \in Slots : WarmDb(c)
    \/ \E c \in Slots : WarmSet(c)
    \/ \E c \in Slots : SpendRetry(c)
    \/ \E c \in Slots : GetBalanceReread(c)
    \/ \E c \in Slots : PublishOk(c)
    \/ \E e \in bus : WorkerHandle(e)

InitAccount == InitEmpty \/ InitWarmFrom(SeedBalances)

SpecAccount == InitAccount /\ [][NextAccount]_vars

\* ------------------------------------------------------------ inputs
\* Spend requests as the JSON decoder accepts them: any int64 amount, any
\* string as idempotency key.
InputAmounts == {-5, 0, 7}

InputKeys == {"", "k1"}

NextInput ==
    \/ \E c \in 1..NInput, a \in Accounts, n \in InputAmounts, k \in InputKeys :
          SpendScript(c, a, n, k)
    \/ \E c \in Slots : PublishOk(c)
    \/ \E e \in bus : WorkerHandle(e)

SpecInput == InitWarm /\ [][NextInput]_vars

\* ------------------------------------------------------------ gRPC bus
PublishRpcUnbounded(c) ==
    /\ pc[c] = "publish"
    /\ events' = Append(events, SpendEvent(c))
    /\ pc' = [pc EXCEPT ![c] = "done"]
    /\ res' = [res EXCEPT ![c].published = TRUE]
    /\ UNCHANGED <<fsBalance, fsIdem, fsDeleted, dsBalances, dsTransactions, bus, req, tmp, ghost, initBal, server, app>>

\* publishEvent over GrpcBus.Publish: a non-blocking send on the channel.
\* With room the event is buffered, otherwise it is dropped with a warning;
\* nil is returned either way.
PublishRpc(c) ==
    /\ pc[c] = "publish"
    /\ events' = IF Len(events) < BufferSize THEN Append(events, SpendEvent(c)) ELSE events
    /\ pc' = [pc EXCEPT ![c] = "done"]
    /\ res' = [res EXCEPT ![c].published = Len(events) < BufferSize]
    /\ UNCHANGED <<fsBalance, fsIdem, fsDeleted, dsBalances, dsTransactions, bus, req, tmp, ghost, initBal, server, app>>

ServerPublishNoSync(txs, bals, srv, e, syncErr) ==
    [txs |-> txs, bals |-> bals,
     server |-> [srv EXCEPT !.served = @ + 1, !.event = Some(e), !.syncErr = syncErr,
                            !.success = TRUE]]

\* The receiver's Publish RPC on a payload that decodes to the spend event e:
\* one call of SyncTransactionWithBalance with e; success = the call returned
\* no error.  syncErr: the call fails (its transaction is rolled back).
ServerPublish(txs, bals, srv, e, syncErr) ==
    LET s == IF syncErr THEN [txs |-> txs, bals |-> bals]
             ELSE SyncTransactionWithBalance(txs, bals, e)
    IN [txs |-> s.txs, bals |-> s.bals,
        server |-> [srv EXCEPT !.served = @ + 1, !.syncCalled = @ + 1, !.event = Some(e),
                               !.syncErr = syncErr, !.success = ~syncErr]]

\* GrpcBus.worker: takes the oldest event off the channel and sends it with
\* client.Publish; the receiver serves it.
RpcDispatch(syncErr) ==
    /\ events # <<>>
    /\ events' = Tail(events)
    /\ LET p == ServerPublish(dsTransactions, dsBalances, server, Head(events), syncErr)
       IN /\ dsTransactions' = p.txs
          /\ dsBalances' = p.bals
          /\ server' = p.server
    /\ UNCHANGED <<fsBalance, fsIdem, fsDeleted, bus, pc, req, res, tmp, ghost, initBal, app>>

RpcDispatchFailRetries ==
    /\ events # <<>>
    /\ events' = Append(Tail(events), Head(events))
    /\ UNCHANGED <<fsBalance, fsIdem, fsDeleted, dsBalances, dsTransactions, bus, pc, req, res, tmp, ghost, initBal, server, app>>

\* GrpcBus.worker: client.Publish returned an error (the receiver was not
\* reached); it is logged and the event is gone.
RpcDispatchFail ==
    /\ events # <<>>
    /\ events' = Tail(events)
    /\ UNCHANGED <<fsBalance, fsIdem, fsDeleted, dsBalances, dsTransactions, bus, pc, req, res, tmp, ghost, initBal, server, app>>

NextRpc ==
    \/ \E c \in 1..NRpc, a \in Accounts, n \in Amounts, k \in Keys : SpendScript(c, a, n, k)
    \/ \E c \in Slots : PublishRpc(c)
    \/ \E syncErr \in BOOLEAN : RpcDispatch(syncErr)
    \/ RpcDispatchFail

SpecRpc == InitWarm /\ [][NextRpc]_vars

\* GrpcBus.worker's loop body on the next event of the channel.
Dispatch == (\E syncErr \in BOOLEAN : RpcDispatch(syncErr)) \/ RpcDispatchFail

\* The dispatcher's goroutine keeps running: whenever the channel holds an
\* event it receives it, and the RPC comes back with an answer or an error.
FairRpc == SpecRpc /\ WF_vars(Dispatch)

\* ------------------------------------------------------------ two accounts
\* Spend calls on two warm accounts that share idempotency keys.
GlobalAccounts == {"u1", "u2"}

InitGlobal ==
    /\ InitSlots
    /\ \E b \in InitBalances :
        /\ fsBalance = [a \in GlobalAccounts |-> Some(b)]
        /\ dsBalances = [a \in GlobalAccounts |-> Some([amount |-> b, deleted |-> FALSE])]
        /\ initBal = [a \in GlobalAccounts |-> b]

NextGlobal ==
    \/ \E c \in 1..NGlobal, a \in GlobalAccounts, n \in Amounts, k \in {"k1", "k2"} :
          SpendScript(c, a, n, k)
    \/ \E c \in Slots : PublishOk(c)
    \/ \E e \in bus : WorkerHandle(e)

SpecGlobal == InitGlobal /\ [][NextGlobal]_vars

\* ------------------------------------------------------------ credits
\* Recharge calls, each of which may fail at the UPDATE or at the DEL, and
\* GetBalance calls on a live account.
NextCredit ==
    \/ \E c \in 1..NCredit, a \in Accounts, d \in Amounts : RechargeDb(c, a, d)
    \/ \E c \in 1..NCredit, a \in Accounts, d \in Amounts : RechargeDbFail(c, a, d)
    \/ \E c \in 1..NCredit, a \in Accounts : GetBalanceRead(c, a)
    \/ \E c \in Slots : RechargeDel(c)
    \/ \E c \in Slots : RechargeDelFail(c)
    \/ \E c \in Slots : WarmDb(c)
    \/ \E c \in Slots : WarmSet(c)
    \/ \E c \in Slots : GetBalanceReread(c)

SpecCredit == InitWarm /\ [][NextCredit]_vars

\* ------------------------------------------------------------ App.Run
\* errgroup: the first non-nil error a Start returns is kept and cancels the
\* group's context.
GroupReturn(a, s, e) ==
    [a EXCEPT !.start[s] = "returned", !.ret[s] = e,
              !.err = IF a.err = "nil" THEN e ELSE a.err,
              !.ctx = a.ctx \/ e # "nil"]

AppOnly == <<fsBalance, fsIdem, fsDeleted, dsBalances, dsTransactions, bus,
             pc, req, res, tmp, ghost, initBal, events, server>>

\* App.Run: errgroup.WithContext and one g.Go per server; Run then waits for
\* the group's context.
AppGo ==
    /\ app.run = "new"
    /\ app' = [app EXCEPT !.run = "wait_ctx", !.start = [s \in Servers |-> "spawned"]]
    /\ UNCHANGED AppOnly

\* SIGINT or SIGTERM: signal.NotifyContext cancels main's context and with it
\* the group's.
Signal ==
    /\ app.run \in {"new", "wait_ctx"}
    /\ ~app.signal
    /\ app' = [app EXCEPT !.signal = TRUE, !.ctx = TRUE]
    /\ UNCHANGED AppOnly

\* A goroutine of the group enters its server's Start and the server comes up:
\* the subscriptions are made (handler, worker), the listener is open (grpc,
\* http).  A server that has been stopped before returns at once: Serve gives
\* ErrServerStopped, ListenAndServe gives ErrServerClosed.
ServerStart(s) ==
    /\ app.start[s] = "spawned"
    /\ app' = IF s \in {"grpc", "http"} /\ app.stopped[s]
              THEN GroupReturn(app, s, IF s = "grpc" THEN "ErrServerStopped" ELSE "ErrServerClosed")
              ELSE [app EXCEPT !.start[s] = "running"]
    /\ UNCHANGED AppOnly

\* Start fails: QueueSubscribe or net.Listen returns an error, or a running
\* listener breaks.
ServerFail(s) ==
    /\ app.start[s] \in {"spawned", "running"}
    /\ app' = [GroupReturn(app, s, "error") EXCEPT !.failed = TRUE]
    /\ UNCHANGED AppOnly

\* App.Run after <-ctx.Done(): Stop on every server.  The handler's Stop
\* unsubscribes, the worker's is a no-op, grpc's is GracefulStop, http's is
\* Shutdown.
AppStop ==
    /\ app.run = "wait_ctx"
    /\ app.ctx
    /\ app' = [app EXCEPT !.run = "wait", !.stopped = [s \in Servers |-> TRUE]]
    /\ UNCHANGED AppOnly

\* A running server's Start returns.  Handler and worker pass <-ctx.Done(),
\* call Drain on their subscriptions and return nil: Subscription.Drain
\* removes the interest and returns, the callbacks of the messages already
\* received go on without it.  Serve returns nil after GracefulStop;
\* ListenAndServe returns ErrServerClosed after Shutdown.
ServerReturn(s) ==
    /\ app.start[s] = "running"
    /\ IF s \in {"handler", "worker"} THEN app.ctx ELSE app.stopped[s]
    /\ app' = GroupReturn(app, s, IF s = "http" THEN "ErrServerClosed" ELSE "nil")
    /\ UNCHANGED AppOnly

\* g.Wait(): every goroutine of the group has returned; Run returns the
\* group's first error.
AppWait ==
    /\ app.run = "wait"
    /\ \A s \in Servers : app.start[s] = "returned"
    /\ app' = [app EXCEPT !.run = "returned", !.result = app.err]
    /\ UNCHANGED AppOnly

\* The worker's subscription delivers a message: its callback starts.  The
\* callbacks of one subscription run one after the other.
WorkerCallback(c, e) ==
    /\ app.start["worker"] = "running"
    /\ SyncPending = {}
    /\ SyncInsert(c, e)

\* The callback's transaction fails on the cancelled context and is rolled
\* back; the error is logged.
SyncCancelled(c) ==
    /\ pc[c] = "sync_update"
    /\ app.ctx
    /\ pc' = [pc EXCEPT ![c] = "done"]
    /\ res' = [res EXCEPT ![c].status = "Canceled"]
    /\ UNCHANGED <<fsBalance, fsIdem, fsDeleted, dsBalances, dsTransactions, bus, req, tmp, ghost, initBal, events, server, app>>

NextApp ==
    \/ AppGo
    \/ Signal
    \/ \E s \in Servers : ServerStart(s)
    \/ \E s \in Servers : ServerFail(s)
    \/ AppStop
    \/ \E s \in Servers : ServerReturn(s)
    \/ AppWait
    \/ \E c \in 1..NApp, e \in SyncEvents : WorkerCallback(c, e)
    \/ \E c \in Slots : SyncCommit(c)
    \/ \E c \in Slots : SyncCancelled(c)

SpecApp == InitSync /\ [][NextApp]_vars

\* ------------------------------------------------------------ spend-only
\* N concurrent Spend calls against a warm account.
NextSpend ==
    \/ \E c \in 1..NSpend, a \in Accounts, n \in Amounts, k \in Keys : SpendScript(c, a, n, k)
    \/ \E c \in Slots : PublishOk(c)
    \/ \E e \in bus : WorkerHandle(e)

SpecSpend == InitWarm /\ [][NextSpend]_vars

\* ------------------------------------------------------------ cold start
\* Concurrent Spend and GetBalance calls against an account whose balance key
\* is absent from Redis.
NextCold ==
    \/ \E c \in 1..NCold, a \in Accounts, n \in Amounts, k \in {"k1", "k2"} : SpendScript(c, a, n, k)
    \/ \E c \in 1..NCold, a \in Accounts : GetBalanceRead(c, a)
    \/ \E c \in Slots : WarmDb(c)
    \/ \E c \in Slots : WarmSet(c)
    \/ \E c \in Slots : SpendRetry(c)
    \/ \E c \in Slots : GetBalanceReread(c)
    \/ \E c \in Slots : PublishOk(c)
    \/ \E e \in bus : WorkerHandle(e)

SpecCold == InitCold /\ [][NextCold]_vars

\* ------------------------------------------------------------ recharge
\* Spend, Recharge and GetBalance calls against a live account.
NextRecharge ==
    \/ \E c \in 1..NRecharge, a \in Accounts, n \in SeedAmounts, k \in {"k1", "k2"} : SpendScript(c, a, n, k)
    \/ \E c \in 1..NRecharge, a \in Accounts : GetBalanceRead(c, a)
    \/ \E c \in 1..NRecharge, a \in Accounts, d \in SeedDeltas : RechargeDb(c, a, d)
    \/ \E c \in Slots : RechargeDel(c)
    \/ \E c \in Slots : WarmDb(c)
    \/ \E c \in Slots : WarmSet(c)
    \/ \E c \in Slots : SpendRetry(c)
    \/ \E c \in Slots : GetBalanceReread(c)
    \/ \E c \in Slots : PublishOk(c)
    \/ \E e \in bus : WorkerHandle(e)

InitRecharge == InitWarmFrom(SeedBalances) \/ InitColdFrom(SeedBalances)

SpecRecharge == InitRecharge /\ [][NextRecharge]_vars

\* ------------------------------------------------------------ everything
Next ==
    \/ \E c \in 1..MaxCalls, a \in Accounts, n \in Amounts, k \in {"k1", "k2"} : SpendScript(c, a, n, k)
    \/ \E c \in 1..MaxCalls, a \in Accounts : GetBalanceRead(c, a)
    \/ \E c \in 1..MaxCalls, a \in Accounts, d \in Amounts : RechargeDb(c, a, d)
    \/ \E c \in 1..MaxCalls, a \in Accounts, b \in InitBalances : CreateDb(c, a, b)
    \/ \E c \in 1..MaxCalls, a \in Accounts : DeleteDb(c, a)
    \/ \E c \in Slots : RechargeDel(c)
    \/ \E c \in Slots : CreateSet(c)
    \/ \E c \in Slots : DeletePipe(c)
    \/ \E c \in Slots : WarmDb(c)
    \/ \E c \in Slots : WarmSet(c)
    \/ \E c \in Slots : SpendRetry(c)
    \/ \E c \in Slots : GetBalanceReread(c)
    \/ \E c \in Slots : PublishOk(c)
    \/ \E c \in Slots : PublishFail(c)
    \/ \E a \in Accounts : DeletedExpire(a)
    \/ \E k \in Keys : IdemExpire(k)
    \/ \E e \in bus : WorkerHandle(e)

Init == InitEmpty \/ InitWarm \/ InitCold

Spec == Init /\ [][Next]_vars

\* ------------------------------------------------------------ results
Min(x, y) == IF x < y THEN x ELSE y

Returned == {c \in Slots : pc[c] = "done"}

SpendCalls == {c \in Slots : req[c].op = "Spend"}

\* Spend calls whose script run committed the debit.
Succeeded == {c \in SpendCalls : res[c].status = "SUCCESS"}

WithStatus(st) == {c \in Returned : res[c].status = st}

RECURSIVE SumAmount(_)
SumAmount(S) ==
    IF S = {} THEN 0
    ELSE LET c == CHOOSE x \in S : TRUE IN req[c].amount + SumAmount(S \ {c})

DistinctKeys(S) == \A c, d \in S : c # d => req[c].key # req[d].key

SameKey(S) == \A c, d \in S : req[c].key = req[d].key

SameAmount(S) == \A c, d \in S : req[c].amount = req[d].amount

\* N concurrent Spend calls of one amount with distinct keys have all returned.
OversellCase ==
    /\ Quiet
    /\ Returned # {}
    /\ DistinctKeys(Returned)
    /\ SameAmount(Returned)

AmountOf(S) == req[CHOOSE c \in S : TRUE].amount

SharedKeyCase ==
    /\ Quiet
    /\ Returned # {}
    /\ SameKey(Returned)
    /\ \A c \in Returned : req[c].amount <= initBal["u1"]

\* C2: of concurrent Spend calls sharing one idempotency key (balance
\* sufficient) exactly one returns SUCCESS, every other returns
\* AlreadyProcessed, and the balance ends exactly one amount lower.
C2_Idempotency ==
    SharedKeyCase =>
        /\ Cardinality(WithStatus("SUCCESS")) = 1
        /\ WithStatus("AlreadyProcessed") = Returned \ WithStatus("SUCCESS")
        /\ fsBalance["u1"] = Some(initBal["u1"] - SumAmount(WithStatus("SUCCESS")))

C2_Witness ==
    /\ SharedKeyCase
    /\ Cardinality(Returned) = NSpend
    /\ Cardinality(WithStatus("AlreadyProcessed")) = NSpend - 1

\* C3: the value stored under the balance key is never negative.
C3_FsBalanceNonNegative ==
    \A a \in Accounts : fsBalance[a] # None => Val(fsBalance[a]) >= 0

\* C4: the amount of a live (not tombstoned) balances row is never negative.
C4_DsBalanceNonNegative ==
    \A a \in Accounts :
        (dsBalances[a] # None /\ ~Val(dsBalances[a]).deleted) => Val(dsBalances[a]).amount >= 0

\* Recharge calls whose UPDATE has been committed.
Recharged ==
    {c \in Slots : /\ req[c].op = "Recharge"
                   /\ \/ pc[c] = "recharge_del"
                      \/ pc[c] = "done" /\ res[c].status = "Ok"}

\* Every Spend call has returned, no publish failed, the bus is empty.
Drained ==
    /\ \A c \in SpendCalls : pc[c] = "done"
    /\ \A c \in Succeeded : res[c].published
    /\ bus = {}

\* C5: once all Spend calls have returned and the bus has drained (no publish
\* failure), the DS amount is initial + recharges - successful spends and the
\* transactions table holds exactly one row per successful Spend, no others.
C5_DsConvergence ==
    Drained =>
        /\ \A a \in Accounts :
              dsBalances[a] # None =>
                  Val(dsBalances[a]).amount =
                      initBal[a] + SumAmount({c \in Recharged : req[c].account = a})
                                 - SumAmount({c \in Succeeded : req[c].account = a})
        /\ dsTransactions =
              {[key |-> req[c].key, account |-> req[c].account, amount |-> req[c].amount] :
                  c \in Succeeded}
        /\ Cardinality(dsTransactions) = Cardinality(Succeeded)

C5_Witness ==
    /\ Drained
    /\ Quiet
    /\ Recharged # {}
    /\ Cardinality(Succeeded) = 2

\* A script run of slot c that ended INSUFFICIENT or NOT_FOUND in this step.
ScriptFailed(c) ==
    /\ pc[c] \in {"idle", "retry"}
    /\ pc'[c] # pc[c]
    /\ req'[c].op = "Spend"
    /\ \/ pc'[c] = "warm_db"
       \/ res'[c].status \in {"Insufficient", "CacheMiss"}

\* C7: a script run that returns INSUFFICIENT or NOT_FOUND sets no idem
\* marker and leaves the balance key as it was.
C7_FailedSpendKeepsKey ==
    [][\A c \in Slots : ScriptFailed(c) => (fsIdem' = fsIdem /\ fsBalance' = fsBalance)]_vars

\* A Spend returned Insufficient, and a later Spend with the same key
\* succeeded after a Recharge.
C7_Witness ==
    \E c, d \in Returned :
        /\ c < d
        /\ res[c].status = "Insufficient"
        /\ req[d].op = "Spend"
        /\ req[d].key = req[c].key
        /\ res[d].status = "SUCCESS"
        /\ \E r \in Recharged : c < r /\ r < d

\* C8: a Spend, GetBalance or Recharge that starts after DeleteAccount
\* returned success fails (the claim: with NotFound / Deleted; here any error
\* is accepted, so that only a call that succeeds refutes it).
C8_Tombstone ==
    \A c \in Returned :
        (ghost[c].afterDelete /\ req[c].op \in {"Spend", "GetBalance", "Recharge"})
            => res[c].status \notin {"SUCCESS", "Ok"}

\* ------------------------------------------------------------ cold start
\* The orders in which the calls of S can be served one after the other.
Orders(S) ==
    {o \in [1..Cardinality(S) -> S] : \A i, j \in 1..Cardinality(S) : i # j => o[i] # o[j]}

\* What call c returns when served alone on a warm store holding bal, idem.
WarmAnswer(c, bal, idem) ==
    IF req[c].op = "Spend"
    THEN LET r == SpendLua(Some(bal), req[c].key \in idem, req[c].amount)
         IN [status |-> LuaOutcome(r.status, FALSE).status, val |-> r.val,
             bal |-> Val(r.bal), idem |-> IF r.mark THEN idem \cup {req[c].key} ELSE idem]
    ELSE [status |-> "Ok", val |-> bal, bal |-> bal, idem |-> idem]

\* Serving the calls o[i..] in this order on a warm store gives each call the
\* answer it got and ends with balance final.
RECURSIVE WarmRun(_, _, _, _, _)
WarmRun(o, i, bal, idem, final) ==
    IF i > Len(o) THEN bal = final
    ELSE LET w == WarmAnswer(o[i], bal, idem)
         IN /\ res[o[i]].status = w.status
            /\ res[o[i]].val = w.val
            /\ WarmRun(o, i + 1, w.bal, w.idem, final)

\* Every call found the balance key absent when it started; all have returned.
ColdCase ==
    /\ Quiet
    /\ Returned # {}
    /\ \A c \in Returned : ghost[c].pre = None

\* C6: concurrent Spend / GetBalance calls that each find the balance key
\* absent and warm up end with the results and the final balance that the same
\* calls give, in some order, on a store that held B from the start.
C6_ColdStartAsWarm ==
    ColdCase =>
        /\ fsBalance["u1"] # None
        /\ \E o \in Orders(Returned) : WarmRun(o, 1, initBal["u1"], {}, Val(fsBalance["u1"]))

\* ------------------------------------------------------------ recharge
\* Slot g is a GetBalance served right after the Recharge of slot r returned:
\* no other call was in progress during either, none has started since.
RechargeThenGet(r, g) ==
    /\ g = r + 1
    /\ req[r].op = "Recharge" /\ pc[r] = "done" /\ res[r].status = "Ok"
    /\ req[g].op = "GetBalance" /\ pc[g] = "done"
    /\ ghost[r].seq /\ ghost[g].seq
    /\ ghost[r].pre # None
    /\ \A d \in Slots : d > g => pc[d] = "idle"

\* C9: a Recharge(delta) immediately followed by GetBalance returns at least
\* the balance key's value just before the recharge plus delta.
C9_RechargeInvalidation ==
    \A r, g \in Slots :
        RechargeThenGet(r, g) =>
            /\ res[g].status = "Ok"
            /\ res[g].val >= Val(ghost[r].pre) + req[r].amount

\* CreateAccount(b0); Spend(a, k1) SUCCESS; Recharge(delta); Spend(a2, k2),
\* one after the other, with a2 covered by b0 - a + delta.
SpendRechargeSpend ==
    /\ ghost[1].pre = Some(initBal["u1"])
    /\ req[1].op = "Spend" /\ pc[1] = "done" /\ res[1].status = "SUCCESS"
    /\ req[2].op = "Recharge" /\ pc[2] = "done" /\ res[2].status = "Ok" /\ ghost[2].seq
    /\ req[3].op = "Spend" /\ pc[3] = "done" /\ ghost[3].seq
    /\ req[3].key # req[1].key
    /\ req[3].amount <= initBal["u1"] - req[1].amount + req[2].amount
    /\ \A d \in Slots : d > 3 => pc[d] = "idle"

\* C10: in that sequence the last Spend returns b0 - a + delta - a2, whether
\* or not the worker has applied the event of k1.
C10_SpendAfterRecharge ==
    SpendRechargeSpend =>
        /\ res[3].status = "SUCCESS"
        /\ res[3].val = initBal["u1"] - req[1].amount + req[2].amount - req[3].amount

\* ------------------------------------------------------------ reconvergence
\* The calls were served one after the other: a Recharge has returned, a
\* later call has warmed the balance key up from the row, every call has
\* returned and the worker has handled every event.
ReconvergeCase ==
    /\ Quiet
    /\ Drained
    /\ \A c \in Returned : ghost[c].seq
    /\ \E r \in Recharged, w \in Returned :
          /\ r < w
          /\ pc[r] = "done"
          /\ req[w].op \in {"Spend", "GetBalance"}
          /\ ghost[w].pre = None
          /\ res[w].status \in {"SUCCESS", "Ok"}

\* C11: after a Recharge invalidated the balance key while spend events were
\* in flight and a later Spend or GetBalance warmed up from the row, once the
\* worker has drained every event and no call is in progress the balance key
\* holds the row's amount.
C11_Reconvergence ==
    ReconvergeCase =>
        \A a \in Accounts :
            (fsBalance[a] # None /\ dsBalances[a] # None)
                => Val(fsBalance[a]) = Val(dsBalances[a]).amount

\* ------------------------------------------------------------ deliveries
SyncCalls == {c \in Slots : req[c].op = "Sync"}

RECURSIVE SumRows(_)
SumRows(T) ==
    IF T = {} THEN 0
    ELSE LET t == CHOOSE x \in T : TRUE IN t.amount + SumRows(T \ {t})

\* C12: however often and however interleaved an event is delivered, the
\* transactions table holds one row per idempotency key, an account's row is
\* lower by the amount of each recorded event exactly once, and every finished
\* delivery returned success.
C12_Redelivery ==
    /\ \A t, u \in dsTransactions : t.key = u.key => t = u
    /\ \A a \in Accounts :
          dsBalances[a] # None =>
              Val(dsBalances[a]).amount =
                  initBal[a] - SumRows({t \in dsTransactions : t.account = a})
    /\ \A c \in SyncCalls \cap Returned : res[c].status = "Ok"

\* One event delivered three times and another one once, the row present.
C12_Witness ==
    /\ dsBalances["u1"] # None
    /\ Cardinality(dsTransactions) = 2
    /\ \E c \in SyncCalls \cap Returned :
          Cardinality({d \in SyncCalls \cap Returned : req[d].key = req[c].key}) = 3

\* C13: a transactions row is committed only together with the decrement of
\* its account's balances row: no row is recorded for an account that has no
\* balances row.
C13_NoRowWithoutBalance ==
    \A t \in dsTransactions : dsBalances[t.account] # None

\* The delivery of slot c commits in this step.
SyncCommits(c) == pc[c] = "sync_update" /\ pc'[c] = "done"

\* C14: a delivery whose balances row is tombstoned changes neither the row
\* nor the transactions table, and returns an error.
C14_TombstonedRowUntouched ==
    [][\A c \in Slots :
          (SyncCommits(c) /\ dsBalances[req[c].account] # None
                          /\ Val(dsBalances[req[c].account]).deleted)
              => /\ dsBalances' = dsBalances
                 /\ dsTransactions' = dsTransactions
                 /\ res'[c].status # "Ok"]_vars

\* ------------------------------------------------------------ failures
\* C15: the event of a successful, published Spend is never lost: until the
\* worker has recorded it, it is still on the bus to be delivered (again).
C15_EventNotLost ==
    \A c \in Succeeded :
        res[c].published =>
            \/ SpendEvent(c) \in bus
            \/ req[c].key \in TxKeys(dsTransactions)

\* The publish of slot c fails in this step.
PublishFails(c) == pc[c] = "publish" /\ pc'[c] = "done" /\ bus' = bus

\* C18: when the script returned SUCCESS and Publish fails, Spend still
\* returns {new_balance, SUCCESS}, and the debit and the idem marker stay.
C18_PublishFailureSwallowed ==
    [][\A c \in Slots :
          PublishFails(c) =>
              /\ res'[c].status = "SUCCESS"
              /\ res'[c].val = res[c].val
              /\ fsBalance' = fsBalance
              /\ fsIdem' = fsIdem
              /\ req[c].key \in fsIdem]_vars

\* A Spend returned SUCCESS although its event was never published.
C18_Witness ==
    \E c \in Succeeded :
        /\ pc[c] = "done"
        /\ ~res[c].published
        /\ req[c].key \in fsIdem
        /\ fsBalance[req[c].account] = Some(initBal[req[c].account] - req[c].amount)
        /\ res[c].val = initBal[req[c].account] - req[c].amount

\* Spend calls cancelled after their script run committed.
Cancelled == {c \in SpendCalls : res[c].status = "Canceled"}

\* C19: a Spend cancelled after the script committed keeps its debit and its
\* idem marker, and a later Spend with the same key returns AlreadyProcessed
\* and debits nothing.
C19_CancelAfterCommit ==
    /\ \A c \in Cancelled : req[c].key \in fsIdem
    /\ \A c \in Cancelled, d \in Returned :
          (d > c /\ req[d].key = req[c].key) => res[d].status = "AlreadyProcessed"
    /\ \A a \in Accounts :
          fsBalance[a] = Some(initBal[a] - SumAmount({c \in Succeeded \cup Cancelled : req[c].account = a}))

\* A cancelled Spend was retried with its key, and a Spend with another key
\* went through.
C19_Witness ==
    \E c \in Cancelled, d \in Returned, s \in Succeeded :
        /\ d > c
        /\ req[d].key = req[c].key
        /\ res[d].status = "AlreadyProcessed"
        /\ pc[s] = "done"

\* ------------------------------------------------------------ retry
\* The second script run of slot c happens in this step.
Retries(c) == pc[c] = "retry" /\ pc'[c] # "retry"

\* C16: the script run after warm-up is the last one of its Spend (no further
\* warm-up, no further run), and when it finds the balance key absent again
\* the Spend fails with NotFound.
C16_RetryOnce ==
    [][\A c \in Slots :
          Retries(c) =>
              /\ pc'[c] \in {"publish", "done"}
              /\ (fsBalance[req[c].account] = None /\ req[c].key \notin fsIdem)
                    => (pc'[c] = "done" /\ res'[c].status = "NotFound")]_vars

\* ------------------------------------------------------------ script
\* The reference decision function on (balance key, idem marker present?, N).
LuaReference(bal, idem, n) ==
    IF idem THEN [status |-> 0, bal |-> bal, mark |-> FALSE, val |-> 0]
    ELSE IF bal = None THEN [status |-> -1, bal |-> bal, mark |-> FALSE, val |-> 0]
    ELSE IF Val(bal) < n THEN [status |-> -2, bal |-> bal, mark |-> FALSE, val |-> 0]
    ELSE [status |-> 1, bal |-> Some(Val(bal) - n), mark |-> TRUE, val |-> Val(bal) - n]

\* The first script run of slot c happens in this step.
ScriptRuns(c) == pc[c] = "idle" /\ pc'[c] # "idle" /\ req'[c].op = "Spend"

\* C17: every script run decides as the reference function: idem present ->
\* ALREADY_PROCESSED, nothing changed; else balance absent -> NOT_FOUND,
\* nothing changed; else b < N -> INSUFFICIENT, nothing changed; else the
\* balance becomes b - N, the marker is set and (SUCCESS, b - N) is returned.
C17_ScriptIsReference ==
    [][\A c \in Slots :
          ScriptRuns(c) =>
              LET a == req'[c].account
                  k == req'[c].key
                  r == LuaReference(fsBalance[a], k \in fsIdem, req'[c].amount)
                  o == LuaOutcome(r.status, TRUE)
              IN /\ fsBalance'[a] = r.bal
                 /\ fsIdem' = (IF r.mark THEN fsIdem \cup {k} ELSE fsIdem)
                 /\ pc'[c] = o.pc
                 /\ res'[c].status = o.status
                 /\ res'[c].val = r.val]_vars

\* ------------------------------------------------------------ CreateAccount
\* The INSERT of the CreateAccount served by slot c happens in this step.
CreateStarts(c) == pc[c] = "idle" /\ pc'[c] # "idle" /\ req'[c].op = "CreateAccount"

\* C20: CreateAccount on a key with no row inserts the row with the initial
\* amount and then sets the balance key to it; on a key that has a row (live
\* or tombstoned) it fails with AlreadyExists and changes neither.
C20_CreateAccount ==
    [][\A c \in Slots :
          /\ CreateStarts(c) =>
                LET a == req'[c].account
                IN IF dsBalances[a] = None
                   THEN /\ dsBalances'[a] = Some([amount |-> req'[c].amount, deleted |-> FALSE])
                        /\ pc'[c] = "create_set"
                   ELSE /\ pc'[c] = "done"
                        /\ res'[c].status = "AlreadyExists"
                        /\ dsBalances' = dsBalances
                        /\ fsBalance' = fsBalance
          /\ (pc[c] = "create_set" /\ pc'[c] # "create_set") =>
                /\ fsBalance'[req[c].account] = Some(req[c].amount)
                /\ pc'[c] = "done"
                /\ res'[c].status = "Ok"]_vars

\* One CreateAccount went through, a later one was refused, and the row and
\* the balance key hold the first one's amount.
C20_Witness ==
    \E c, d \in Returned :
        /\ c < d
        /\ req[c].op = "CreateAccount" /\ res[c].status = "Ok"
        /\ req[d].op = "CreateAccount" /\ res[d].status = "AlreadyExists"
        /\ req[d].amount # req[c].amount
        /\ fsBalance[req[c].account] = Some(req[c].amount)
        /\ dsBalances[req[c].account] = Some([amount |-> req[c].amount, deleted |-> FALSE])

\* ------------------------------------------------------------ accounts
\* Slot c is the first CreateAccount that arrived after a DeleteAccount had
\* returned success, with no call in progress.
Recreates(c) ==
    /\ pc[c] = "done"
    /\ req[c].op = "CreateAccount"
    /\ ghost[c].afterDelete
    /\ ghost[c].seq
    /\ \A d \in 1..(c - 1) : ~(req[d].op = "CreateAccount" /\ ghost[d].afterDelete)

\* C21: a CreateAccount issued after DeleteAccount succeeds, and the Spend,
\* GetBalance or Recharge served right after it does not fail with
\* NotFound / Deleted.
C21_Recreate ==
    \A c \in Slots :
        Recreates(c) =>
            /\ res[c].status = "Ok"
            /\ \A d \in Returned :
                  (d = c + 1 /\ ghost[d].seq /\ req[d].op \in {"Spend", "GetBalance", "Recharge"})
                      => res[d].status \notin {"NotFound", "Deleted", "CacheMiss"}

\* The SET of the CreateAccount of slot c fails in this step: the balance key
\* was absent and still is.
CreateSetFails(c) ==
    /\ pc[c] = "create_set"
    /\ pc'[c] = "done"
    /\ fsBalance[req[c].account] = None
    /\ fsBalance'[req[c].account] = None

\* C22: a CreateAccount whose INSERT succeeded and whose write of the balance
\* key failed returns success.
C22_CreateSwallowsFsFailure ==
    [][\A c \in Slots : CreateSetFails(c) => res'[c].status = "Ok"]_vars

\* The UPDATE of the DeleteAccount served by slot c happens in this step.
DeleteStarts(c) == pc[c] = "idle" /\ pc'[c] # "idle" /\ req'[c].op = "DeleteAccount"

LiveRow(row) == row # None /\ ~Val(row).deleted

\* C23: DeleteAccount on a live row sets deleted_at, then removes the balance
\* key and writes the deleted: key; on an absent or tombstoned row it fails
\* with NotFound and changes neither store.
C23_DeleteAccount ==
    [][\A c \in Slots :
          /\ DeleteStarts(c) =>
                LET a == req'[c].account
                IN IF LiveRow(dsBalances[a])
                   THEN /\ dsBalances'[a] = Some([Val(dsBalances[a]) EXCEPT !.deleted = TRUE])
                        /\ pc'[c] = "delete_pipe"
                   ELSE /\ pc'[c] = "done"
                        /\ res'[c].status = "NotFound"
                        /\ dsBalances' = dsBalances
                        /\ fsBalance' = fsBalance
                        /\ fsDeleted' = fsDeleted
          /\ (pc[c] = "delete_pipe" /\ pc'[c] # "delete_pipe") =>
                /\ fsBalance'[req[c].account] = None
                /\ req[c].account \in fsDeleted'
                /\ pc'[c] = "done"
                /\ res'[c].status = "Ok"]_vars

\* A DeleteAccount went through and a second one was refused.
C23_Witness ==
    \E c, d \in Returned :
        /\ c < d
        /\ req[c].op = "DeleteAccount" /\ res[c].status = "Ok"
        /\ req[d].op = "DeleteAccount" /\ res[d].status = "NotFound"
        /\ fsBalance[req[c].account] = None
        /\ req[c].account \in fsDeleted
        /\ ~LiveRow(dsBalances[req[c].account])

\* The UPDATE of the Recharge served by slot c happens in this step.
RechargeStarts(c) == pc[c] = "idle" /\ pc'[c] # "idle" /\ req'[c].op = "Recharge"

\* C24: Recharge on a live row adds delta to the row and then deletes the
\* balance key; on an absent or tombstoned row it fails with NotFound and
\* changes neither the row nor the balance key.
C24_Recharge ==
    [][\A c \in Slots :
          /\ RechargeStarts(c) =>
                LET a == req'[c].account
                IN IF LiveRow(dsBalances[a])
                   THEN /\ dsBalances'[a] =
                              Some([Val(dsBalances[a]) EXCEPT !.amount = @ + req'[c].amount])
                        /\ pc'[c] = "recharge_del"
                        /\ fsBalance' = fsBalance
                   ELSE /\ pc'[c] = "done"
                        /\ res'[c].status = "NotFound"
                        /\ dsBalances' = dsBalances
                        /\ fsBalance' = fsBalance
          /\ (pc[c] = "recharge_del" /\ pc'[c] # "recharge_del") =>
                /\ fsBalance'[req[c].account] = None
                /\ pc'[c] = "done"
                /\ res'[c].status = "Ok"]_vars

\* A Recharge went through, and one on the tombstoned row was refused.
C24_Witness ==
    \E c, d \in Returned :
        /\ c < d
        /\ req[c].op = "Recharge" /\ res[c].status = "Ok"
        /\ req[d].op = "Recharge" /\ res[d].status = "NotFound"
        /\ dsBalances[req[d].account] # None
        /\ Val(dsBalances[req[d].account]).deleted
        /\ Val(dsBalances[req[d].account]).amount = initBal[req[d].account] + req[c].amount

C26_InputValidation ==
    [][\A c \in Slots :
          ScriptRuns(c) =>
              /\ (req'[c].amount <= 0 \/ req'[c].key = "") =>
                    /\ res'[c].status = "InvalidInput"
                    /\ <<fsBalance, fsIdem, dsBalances, dsTransactions, bus>>' =
                          <<fsBalance, fsIdem, dsBalances, dsTransactions, bus>>
              /\ LET a == req'[c].account
                 IN fsBalance[a] # None =>
                       (fsBalance'[a] # None /\ Val(fsBalance'[a]) <= Val(fsBalance[a]))]_vars

\* The amounts of the first i calls of the order o, summed.
RECURSIVE PrefixSum(_, _)
PrefixSum(o, i) == IF i = 0 THEN 0 ELSE req[o[i]].amount + PrefixSum(o, i - 1)

\* C27: the SUCCESS results of concurrent Spend calls on one warm account can
\* be put in one order in which every new_balance is the initial balance less
\* the amounts of that spend and of the spends before it; no two successful
\* spends return the same new_balance.
C27_TotalOrder ==
    /\ \E o \in Orders(Succeeded) :
          \A i \in 1..Cardinality(Succeeded) :
              res[o[i]].val = initBal[req[o[i]].account] - PrefixSum(o, i)
    /\ \A c, d \in Succeeded : c # d => res[c].val # res[d].val

\* ------------------------------------------------------------ gRPC bus
\* GrpcBus.Publish runs for the Spend served by slot c in this step.
Publishes(c) == pc[c] = "publish" /\ pc'[c] = "done"

\* C28: the RPC bus' Publish never blocks the producer and always returns
\* success: with room in the buffer the event is enqueued, with a full buffer
\* it is dropped; the buffer never holds more than BufferSize events.
C28_PublishNeverBlocks ==
    /\ [](Len(events) <= BufferSize)
    /\ [](\A c \in Slots : pc[c] = "publish" => ENABLED PublishRpc(c))
    /\ [][\A c \in Slots :
             Publishes(c) =>
                 /\ res'[c].status = "SUCCESS"
                 /\ Len(events) < BufferSize => events' = Append(events, SpendEvent(c))
                 /\ Len(events) = BufferSize => events' = events]_vars

\* A Spend returned SUCCESS although its event was dropped at a full buffer.
C28_Witness ==
    /\ Len(events) = BufferSize
    /\ \E c \in Returned : res[c].status = "SUCCESS" /\ ~res[c].published

\* The receiver serves a Publish RPC in this step.
Serves == server'.served = server.served + 1

\* C29: the Publish RPC, given a payload that decodes to a spend event, calls
\* SyncTransactionWithBalance exactly once with that event and answers
\* success = true when the call returns no error.
C29_PublishRpc ==
    [][Serves =>
          LET e == Head(events)
              s == SyncTransactionWithBalance(dsTransactions, dsBalances, e)
          IN /\ server'.syncCalled = server.syncCalled + 1
             /\ server'.event = Some(e)
             /\ ~server'.syncErr =>
                   /\ server'.success
                   /\ dsTransactions' = s.txs
                   /\ dsBalances' = s.bals]_vars

\* A Publish RPC was answered with success and its event is in the ledger.
C29_Witness ==
    /\ server.served = 2
    /\ server.syncCalled = 2
    /\ server.success
    /\ Val(server.event).key \in TxKeys(dsTransactions)
    /\ Val(dsBalances["u1"]).amount < initBal["u1"]

\* ------------------------------------------------------------ HTTP
\* The status mapping of the claim.
StatusMapping(status) ==
    CASE status = "SUCCESS" -> 200
      [] status = "Insufficient" -> 402
      [] status = "AlreadyProcessed" -> 409
      [] status \in {"NotFound", "Deleted"} -> 404
      [] status = "InvalidInput" -> 400
      [] OTHER -> 500

\* C30: a Spend is answered over HTTP with 402 for Insufficient, 409 for
\* AlreadyProcessed, 404 for NotFound and for Deleted, 400 for invalid input,
\* 500 for any other error and 200 for success.
C30_SpendStatusMapping ==
    \A c \in Returned :
        req[c].op = "Spend" => HttpSpend(res[c].status) = StatusMapping(res[c].status)

\* ------------------------------------------------------------ events
\* A script run of the Spend served by slot c (the first one or the one after
\* warm-up) happens in this step.
RunsScript(c) ==
    \/ ScriptRuns(c)
    \/ pc[c] = "retry" /\ pc'[c] # "retry"

\* C32: a spend event is published exactly once for every Spend that returns
\* SUCCESS (the SUCCESS of the run after warm-up included) and never for one
\* that ends in AlreadyProcessed, Insufficient or NotFound; the event carries
\* the request's account, amount and idempotency key.
C32_EventPerSuccess ==
    /\ [](\A c \in Returned :
             req[c].op = "Spend" => (res[c].published <=> res[c].status = "SUCCESS"))
    /\ [][\A c \in Slots :
             /\ RunsScript(c) => (pc'[c] = "publish" <=> res'[c].status = "SUCCESS")
             /\ pc'[c] = "publish" => (pc[c] = "publish" \/ RunsScript(c))
             /\ (pc[c] = "publish" /\ pc'[c] # "publish") =>
                   /\ pc'[c] = "done"
                   /\ res'[c].status = "SUCCESS"
                   /\ ~res[c].published /\ res'[c].published
                   /\ bus' = bus \cup {[slot |-> c, account |-> req[c].account,
                                        amount |-> req[c].amount, key |-> req[c].key]}
             /\ (\E e \in bus' \ bus : e.slot = c) => pc[c] = "publish"
             /\ res[c].published => res'[c].published]_vars

\* A Spend that succeeded first time and one that succeeded after warm-up have
\* published; a third was refused for its key and has not.
C32_Witness ==
    \E c, d, x \in Returned :
        /\ req[c].op = "Spend" /\ res[c].status = "SUCCESS" /\ res[c].published
        /\ ghost[c].pre = None
        /\ req[d].op = "Spend" /\ res[d].status = "SUCCESS" /\ res[d].published
        /\ ghost[d].pre # None
        /\ req[x].op = "Spend" /\ res[x].status = "AlreadyProcessed" /\ ~res[x].published

\* ------------------------------------------------------------ idempotency
\* C33: every idempotency key is applied to the balance key at most once over
\* the whole run, the time after the marker's 24-hour expiry included: no two
\* Spend calls with one key both debit.
C33_KeyAppliedOnce ==
    \A c, d \in Succeeded : req[c].key = req[d].key => c = d

\* ------------------------------------------------------------ GetBalance
\* One Spend call and GetBalance calls around it have all returned.
OneSpendCase ==
    /\ Quiet
    /\ Cardinality(SpendCalls) = 1
    /\ \A c \in Returned : req[c].op \in {"Spend", "GetBalance"}

\* C34: GetBalance is read-only to an observer: whatever the interleaving with
\* GetBalance calls (those that miss and warm up included), a Spend gets the
\* result and leaves the balance key it would without them, here the ones of
\* the Spend served alone from the account's balance.
C34_GetBalanceReadOnly ==
    OneSpendCase =>
        \A c \in SpendCalls :
            LET a == req[c].account
                r == SpendLua(Some(initBal[a]), FALSE, req[c].amount)
            IN /\ res[c].status = LuaOutcome(r.status, FALSE).status
               /\ res[c].val = r.val
               /\ fsBalance[a] = r.bal

\* A Spend with the key of slot c's request has succeeded on another account.
KeyUsedElsewhere(c) ==
    \E d \in Succeeded : req[d].key = req'[c].key /\ req[d].account # req'[c].account

\* C35: the idempotency register is global across accounts: once a Spend with
\* key k has returned SUCCESS on account A, a Spend with k on another account
\* B returns AlreadyProcessed and leaves B's balance key unchanged.
C35_KeyGlobal ==
    [][\A c \in Slots :
          (ScriptRuns(c) /\ KeyUsedElsewhere(c)) =>
              /\ res'[c].status = "AlreadyProcessed"
              /\ pc'[c] = "done"
              /\ fsBalance' = fsBalance]_vars

\* A key spent on u1 was refused on u2, whose balance could have paid.
C35_Witness ==
    \E c, d \in Returned :
        /\ c < d
        /\ req[c].account = "u1" /\ res[c].status = "SUCCESS"
        /\ req[d].account = "u2" /\ req[d].key = req[c].key
        /\ res[d].status = "AlreadyProcessed"
        /\ fsBalance["u2"] = Some(initBal["u2"])
        /\ initBal["u2"] >= req[d].amount

\* The script run of slot c in this step debits its account's balance key.
Debits(c) ==
    /\ RunsScript(c)
    /\ fsBalance[req'[c].account] # None
    /\ fsBalance'[req'[c].account] = Some(Val(fsBalance[req'[c].account]) - req'[c].amount)
    /\ req'[c].amount > 0

\* C36: debit and marker are one atomic step: (the marker's expiry aside) the
\* marker of key k is present exactly when one debit for k has been applied;
\* no state shows a debit without its marker or a marker without its debit.
C36_DebitAndMarker ==
    /\ [](/\ fsIdem = {req[c].key : c \in Succeeded}
          /\ \A c, d \in Succeeded : req[c].key = req[d].key => c = d)
    /\ [][/\ fsIdem \subseteq fsIdem'
          /\ \A k \in fsIdem' \ fsIdem :
                \E c \in Slots : Debits(c) /\ req'[c].key = k /\ res'[c].status = "SUCCESS"
          /\ \A c \in Slots :
                Debits(c) => (req'[c].key \notin fsIdem /\ req'[c].key \in fsIdem')]_vars

\* Two keys have been debited, one of them in the run after a warm-up, and a
\* call that was refused left no marker.
C36_Witness ==
    /\ Cardinality(fsIdem) = 2
    /\ Cardinality(Succeeded) = 2
    /\ \E c \in Succeeded : ghost[c].pre = None
    /\ \E c \in Returned : req[c].op = "Spend" /\ res[c].status = "Insufficient"

\* ------------------------------------------------------------ Recharge
\* Recharge calls that have not returned an error: returned nil, or still
\* between the UPDATE and the DEL.
Credited ==
    {c \in Slots : req[c].op = "Recharge"
                   /\ (pc[c] = "recharge_del" \/ (pc[c] = "done" /\ res[c].status = "Ok"))}

\* C37: a Recharge that returns an error has not changed the row's amount (a
\* retry of it never credits twice): the amount is the initial one plus the
\* deltas of the calls that did not return an error.
C37_FailedRechargeNoCredit ==
    \A a \in Accounts :
        dsBalances[a] # None =>
            Val(dsBalances[a]).amount = initBal[a] + SumAmount(Credited)

\* The event of slot c is in the dispatcher's buffer.
Buffered(c) == \E i \in 1..Len(events) : events[i].slot = c

\* The dispatcher takes an event off the channel in this step.
Dispatches == events # <<>> /\ events' = Tail(events)

\* C38: the dispatcher sends every buffered event to the Publish RPC exactly
\* once, in the order of acceptance; an event whose RPC fails is dropped and
\* not retried; every accepted event is eventually dispatched.
C38_Dispatcher ==
    /\ [][/\ events' # events =>
                \/ Dispatches
                \/ \E c \in Slots : Publishes(c) /\ events' = Append(events, SpendEvent(c))
          /\ \A c \in Slots : (Buffered(c)' /\ ~Buffered(c)) => pc[c] = "publish"
          /\ (Dispatches /\ Serves) => server'.event = Some(Head(events))
          /\ (Dispatches /\ ~Serves) =>
                <<server, dsTransactions, dsBalances>>' = <<server, dsTransactions, dsBalances>>]_vars
    /\ \A c \in 1..NRpc : Buffered(c) ~> ~Buffered(c)

\* Three events were accepted, two reached the receiver and one was dropped
\* with its failed RPC: the buffer is empty and nothing is sent again.
C38_Witness ==
    /\ events = <<>>
    /\ Cardinality({c \in Returned : res[c].published}) = 3
    /\ server.served = 2
    /\ Cardinality(dsTransactions) = 2

\* ------------------------------------------------------------ shutdown
\* C31: the worker's Run does not return before its context is cancelled
\* (the subscription made); after the cancellation it returns only when the
\* handlers in flight have finished.
C31_WorkerRun ==
    (app.start["worker"] = "returned" /\ app.ret["worker"] = "nil") =>
        (app.ctx /\ SyncPending = {})

\* C39: App.Run ends the shutdown: once the context is cancelled or a Start
\* has returned an error, Stop is called on every server; Run returns only
\* when every Start has returned; after a shutdown by signal with no server
\* failing Run returns nil.
C39_AppRun ==
    /\ app.run \in {"wait", "returned"} => \A s \in Servers : app.stopped[s]
    /\ app.run = "returned" => \A s \in Servers : app.start[s] = "returned"
    /\ (app.run = "returned" /\ app.signal /\ ~app.failed) => app.result = "nil"

====
